---- MODULE Spec2Model ----
(***************************************************************************)
(* Model of the stock/price synchronisation scripts seller.py (Ozon) and   *)
(* market.py (Yandex.Market, FBS and DBS campaigns).                       *)
(*                                                                         *)
(* Python str values are sequences of one-character strings.  A raw cell   *)
(* of the remnants table is a tagged value: an integer ("int") or a        *)
(* string ("str"), as pandas delivers them.                                *)
(***************************************************************************)
EXTENDS Integers, Sequences, FiniteSets, TLC

\* ------------------------------------------------------------------ bounds
\* longest list handed to divide, and largest chunk size tried
MaxLen == 4
MaxN == 3
\* longest remnants table and longest offer-id list drawn for the reconcilers
MaxFeed == 2
MaxReg == 2

\* ------------------------------------------------- Python value helpers
Digits == <<"0", "1", "2", "3", "4", "5", "6", "7", "8", "9">>

IsDigit(c) == \E k \in 1..10 : Digits[k] = c

DigitVal(c) == (CHOOSE k \in 1..10 : Digits[k] = c) - 1

IntCell(v) == [t |-> "int", n |-> v, s |-> <<>>]

StrCell(chars) == [t |-> "str", n |-> 0, s |-> chars]

RECURSIVE NatToStr(_)
NatToStr(v) ==
    IF v < 10 THEN <<Digits[v + 1]>>
    ELSE NatToStr(v \div 10) \o <<Digits[(v % 10) + 1]>>

\* str(x) of a cell
Str(cell) ==
    IF cell.t = "str" THEN cell.s
    ELSE IF cell.n < 0 THEN <<"-">> \o NatToStr(0 - cell.n)
    ELSE NatToStr(cell.n)

RECURSIVE DigitsToNat(_)
DigitsToNat(chars) ==
    IF chars = <<>> THEN 0
    ELSE 10 * DigitsToNat(SubSeq(chars, 1, Len(chars) - 1))
         + DigitVal(chars[Len(chars)])

AllDigits(chars) == chars # <<>> /\ \A k \in 1..Len(chars) : IsDigit(chars[k])

\* int(x) of a cell: [ok |-> FALSE] stands for ValueError
PyInt(cell) ==
    IF cell.t = "int" THEN [ok |-> TRUE, val |-> cell.n]
    ELSE IF cell.s # <<>> /\ cell.s[1] \in {"-", "+"} /\ AllDigits(Tail(cell.s))
         THEN [ok |-> TRUE,
               val |-> IF cell.s[1] = "-" THEN 0 - DigitsToNat(Tail(cell.s))
                       ELSE DigitsToNat(Tail(cell.s))]
    ELSE IF AllDigits(cell.s) THEN [ok |-> TRUE, val |-> DigitsToNat(cell.s)]
    ELSE [ok |-> FALSE, val |-> 0]

Min(a, b) == IF a < b THEN a ELSE b

\* lst[lo:hi] for 0 <= lo
Slice(lst, lo, hi) == SubSeq(lst, lo + 1, Min(hi, Len(lst)))

RECURSIVE Concat(_)
Concat(seqs) == IF seqs = <<>> THEN <<>> ELSE Head(seqs) \o Concat(Tail(seqs))

SeqsUpTo(S, k) == UNION {[1..m -> S] : m \in 0..k}

Range(f) == {f[k] : k \in DOMAIN f}

\* ------------------------------------------------------------- divide
\* divide with range(0, len(lst) - 1, n): a trailing one-element batch is lost
RECURSIVE DivideFromShortRange(_, _, _)
DivideFromShortRange(lst, n, i) ==
    IF i >= Len(lst) - 1 THEN <<>>
    ELSE <<Slice(lst, i, i + n)>> \o DivideFromShortRange(lst, n, i + n)

\* the generator's loop: for i in range(0, len(lst), n): yield lst[i: i + n]
RECURSIVE DivideFrom(_, _, _)
DivideFrom(lst, n, i) ==
    IF i >= Len(lst) THEN <<>>
    ELSE <<Slice(lst, i, i + n)>> \o DivideFrom(lst, n, i + n)

\* list(divide(lst, n)), n > 0
Divide(lst, n) == DivideFrom(lst, n, 0)

\* ------------------------------------------------------ price_conversion
RECURSIVE BeforeDot(_)
\* price.split(".")[0]
BeforeDot(chars) ==
    IF chars = <<>> \/ Head(chars) = "." THEN <<>>
    ELSE <<Head(chars)>> \o BeforeDot(Tail(chars))

\* re.sub("[^0-9]", "", text)
KeepDigits(chars) == SelectSeq(chars, IsDigit)

price_conversion(price) == KeepDigits(BeforeDot(price))

\* ---------------------------------------------------------- list helpers
\* x in lst
InList(x, lst) == \E k \in 1..Len(lst) : lst[k] = x

\* the offer_ids.remove(...) line left out
ListRemoveNothing(lst, x) == lst

\* lst.remove(x): drops the first occurrence (x is known to be in lst)
ListRemove(lst, x) ==
    LET first == CHOOSE k \in 1..Len(lst) :
                     lst[k] = x /\ \A j \in 1..(k - 1) : lst[j] # x
    IN  SubSeq(lst, 1, first - 1) \o SubSeq(lst, first + 1, Len(lst))

\* ------------------------------------------------- seller.create_stocks
SellerStock(offer_id, stock) == [offer_id |-> offer_id, stock |-> stock]

\* the first loop without the rule that a quantity of "1" counts as 0
RECURSIVE SellerStocksLoopNoOneRule(_, _, _, _)
SellerStocksLoopNoOneRule(watch_remnants, k, offer_ids, stocks) ==
    IF k > Len(watch_remnants)
    THEN [raised |-> FALSE, stocks |-> stocks, offer_ids |-> offer_ids]
    ELSE LET watch == watch_remnants[k]
             code == Str(watch.Kod)
             count == Str(watch.Kolichestvo)
             parsed == PyInt(watch.Kolichestvo)
         IN  IF ~InList(code, offer_ids)
             THEN SellerStocksLoopNoOneRule(watch_remnants, k + 1, offer_ids, stocks)
             ELSE IF count = <<">", "1", "0">>
             THEN SellerStocksLoopNoOneRule(watch_remnants, k + 1,
                      ListRemove(offer_ids, code),
                      Append(stocks, SellerStock(code, 100)))
             ELSE IF ~parsed.ok
             THEN [raised |-> TRUE, stocks |-> stocks, offer_ids |-> offer_ids]
             ELSE SellerStocksLoopNoOneRule(watch_remnants, k + 1,
                      ListRemove(offer_ids, code),
                      Append(stocks, SellerStock(code, parsed.val)))

\* the first loop, from feed row k on; offer_ids is mutated as rows match
RECURSIVE SellerStocksLoop(_, _, _, _)
SellerStocksLoop(watch_remnants, k, offer_ids, stocks) ==
    IF k > Len(watch_remnants)
    THEN [raised |-> FALSE, stocks |-> stocks, offer_ids |-> offer_ids]
    ELSE LET watch == watch_remnants[k]
             code == Str(watch.Kod)
             count == Str(watch.Kolichestvo)
             parsed == PyInt(watch.Kolichestvo)
         IN  IF ~InList(code, offer_ids)
             THEN SellerStocksLoop(watch_remnants, k + 1, offer_ids, stocks)
             ELSE IF count = <<">", "1", "0">>
             THEN SellerStocksLoop(watch_remnants, k + 1, ListRemove(offer_ids, code),
                                   Append(stocks, SellerStock(code, 100)))
             ELSE IF count = <<"1">>
             THEN SellerStocksLoop(watch_remnants, k + 1, ListRemove(offer_ids, code),
                                   Append(stocks, SellerStock(code, 0)))
             ELSE IF ~parsed.ok
             THEN [raised |-> TRUE, stocks |-> stocks, offer_ids |-> offer_ids]
             ELSE SellerStocksLoop(watch_remnants, k + 1, ListRemove(offer_ids, code),
                                   Append(stocks, SellerStock(code, parsed.val)))

\* the second loop left out
SellerRestNone(offer_ids) == <<>>

\* the second loop: every offer id still in the list gets stock 0
SellerRest(offer_ids) == [k \in 1..Len(offer_ids) |-> SellerStock(offer_ids[k], 0)]

SellerCreateStocks(watch_remnants, offer_ids) ==
    LET r == SellerStocksLoop(watch_remnants, 1, offer_ids, <<>>)
    IN  IF r.raised THEN r
        ELSE [raised |-> FALSE, stocks |-> r.stocks \o SellerRest(r.offer_ids),
              offer_ids |-> r.offer_ids]

\* ------------------------------------------------- market.create_stocks
MarketStock(sku, warehouse_id, date, stock) ==
    [sku |-> sku, warehouseId |-> warehouse_id,
     items |-> <<[count |-> stock, type |-> "FIT", updatedAt |-> date]>>]

RECURSIVE MarketStocksLoop(_, _, _, _, _, _)
MarketStocksLoop(watch_remnants, k, offer_ids, warehouse_id, date, stocks) ==
    IF k > Len(watch_remnants)
    THEN [raised |-> FALSE, stocks |-> stocks, offer_ids |-> offer_ids]
    ELSE LET watch == watch_remnants[k]
             code == Str(watch.Kod)
             count == Str(watch.Kolichestvo)
             parsed == PyInt(watch.Kolichestvo)
         IN  IF ~InList(code, offer_ids)
             THEN MarketStocksLoop(watch_remnants, k + 1, offer_ids, warehouse_id,
                                   date, stocks)
             ELSE IF count = <<">", "1", "0">>
             THEN MarketStocksLoop(watch_remnants, k + 1, ListRemove(offer_ids, code),
                      warehouse_id, date,
                      Append(stocks, MarketStock(code, warehouse_id, date, 100)))
             ELSE IF count = <<"1">>
             THEN MarketStocksLoop(watch_remnants, k + 1, ListRemove(offer_ids, code),
                      warehouse_id, date,
                      Append(stocks, MarketStock(code, warehouse_id, date, 0)))
             ELSE IF ~parsed.ok
             THEN [raised |-> TRUE, stocks |-> stocks, offer_ids |-> offer_ids]
             ELSE MarketStocksLoop(watch_remnants, k + 1, ListRemove(offer_ids, code),
                      warehouse_id, date,
                      Append(stocks, MarketStock(code, warehouse_id, date, parsed.val)))

MarketRest(offer_ids, warehouse_id, date) ==
    [k \in 1..Len(offer_ids) |-> MarketStock(offer_ids[k], warehouse_id, date, 0)]

MarketCreateStocks(watch_remnants, offer_ids, warehouse_id, date) ==
    LET r == MarketStocksLoop(watch_remnants, 1, offer_ids, warehouse_id, date, <<>>)
    IN  IF r.raised THEN r
        ELSE [raised |-> FALSE,
              stocks |-> r.stocks \o MarketRest(r.offer_ids, warehouse_id, date),
              offer_ids |-> r.offer_ids]

\* ------------------------------------------------------- create_prices
SellerPrice(watch) ==
    [auto_action_enabled |-> "UNKNOWN", currency_code |-> "RUB",
     offer_id |-> Str(watch.Kod), old_price |-> "0",
     price |-> price_conversion(watch.Tsena)]

RECURSIVE SellerPricesLoop(_, _, _, _)
SellerPricesLoop(watch_remnants, k, offer_ids, prices) ==
    IF k > Len(watch_remnants) THEN prices
    ELSE IF InList(Str(watch_remnants[k].Kod), offer_ids)
    THEN SellerPricesLoop(watch_remnants, k + 1, offer_ids,
                          Append(prices, SellerPrice(watch_remnants[k])))
    ELSE SellerPricesLoop(watch_remnants, k + 1, offer_ids, prices)

SellerCreatePrices(watch_remnants, offer_ids) ==
    [raised |-> FALSE, prices |-> SellerPricesLoop(watch_remnants, 1, offer_ids, <<>>)]

MarketPrice(watch, value) ==
    [id |-> Str(watch.Kod), price |-> [value |-> value, currencyId |-> "RUR"]]

\* int(price_conversion(...)) raises ValueError when no digit is left
RECURSIVE MarketPricesLoop(_, _, _, _)
MarketPricesLoop(watch_remnants, k, offer_ids, prices) ==
    IF k > Len(watch_remnants) THEN [raised |-> FALSE, prices |-> prices]
    ELSE LET watch == watch_remnants[k]
             parsed == PyInt(StrCell(price_conversion(watch.Tsena)))
         IN  IF ~InList(Str(watch.Kod), offer_ids)
             THEN MarketPricesLoop(watch_remnants, k + 1, offer_ids, prices)
             ELSE IF ~parsed.ok THEN [raised |-> TRUE, prices |-> prices]
             ELSE MarketPricesLoop(watch_remnants, k + 1, offer_ids,
                                   Append(prices, MarketPrice(watch, parsed.val)))

MarketCreatePrices(watch_remnants, offer_ids) ==
    MarketPricesLoop(watch_remnants, 1, offer_ids, <<>>)

\* ======================================================== model state
VARIABLES
    \* harness applying divide to a drawn list
    div_lst, div_n, div_out, div_done,
    \* harness applying create_stocks / create_prices to drawn arguments
    rc_file, rc_watch_remnants, rc_offer_ids, rc_registered,
    rc_stocks, rc_prices, rc_status,
    \* one run of a script's main(): which script, where it stands, the
    \* campaign being synchronised, the exception main() caught
    prog, pc, chan, err,
    \* main()'s and get_offer_ids' locals
    watch_remnants, page, product_list, offer_ids, stocks, prices, queue,
    \* every request sent so far, in order, with its outcome
    calls

divVars == <<div_lst, div_n, div_out, div_done>>

rcVars == <<rc_file, rc_watch_remnants, rc_offer_ids, rc_registered,
            rc_stocks, rc_prices, rc_status>>

syncVars == <<prog, pc, chan, err, watch_remnants, page, product_list,
              offer_ids, stocks, prices, queue, calls>>

vars == <<divVars, rcVars, syncVars>>

SyncIdle ==
    /\ prog = "none"
    /\ pc = "idle"
    /\ chan = "none"
    /\ err = "none"
    /\ watch_remnants = <<>>
    /\ page = ""
    /\ product_list = <<>>
    /\ offer_ids = <<>>
    /\ stocks = <<>>
    /\ prices = <<>>
    /\ queue = <<>>
    /\ calls = <<>>

DivIdle ==
    /\ div_lst = <<>>
    /\ div_n = 1
    /\ div_out = <<>>
    /\ div_done = TRUE

RcIdle ==
    /\ rc_file = "none"
    /\ rc_watch_remnants = <<>>
    /\ rc_offer_ids = <<>>
    /\ rc_registered = <<>>
    /\ rc_stocks = <<>>
    /\ rc_prices = <<>>
    /\ rc_status = [stocks |-> "idle", prices |-> "idle"]

\* ------------------------------------------------- divide on drawn inputs
DivElems == {"a", "b"}

DivInit ==
    /\ div_lst \in SeqsUpTo(DivElems, MaxLen)
    /\ div_n \in 1..MaxN
    /\ div_out = <<>>
    /\ div_done = FALSE

CallDivide ==
    /\ ~div_done
    /\ div_out' = Divide(div_lst, div_n)
    /\ div_done' = TRUE
    /\ UNCHANGED <<div_lst, div_n, rcVars, syncVars>>

DivNext == CallDivide

InitDivide == DivInit /\ RcIdle /\ SyncIdle

SpecDivide == InitDivide /\ [][DivNext]_vars

\* --------------------------------------- reconcilers on drawn inputs
\* cells of the remnants table the harness draws rows from
Codes == {IntCell(1), IntCell(12)}

Quantities == {StrCell(<<">", "1", "0">>), IntCell(1), IntCell(5), IntCell(-2),
               StrCell(<<"x">>)}

\* "5'990.00 r." and "70.50"
Price1 == <<"5", "'", "9", "9", "0", ".", "0", "0", " ", "r", ".">>

Price2 == <<"7", "0", ".", "5", "0">>

\* the rows drawn: every code with every quantity at the first price, and
\* every code once more at the second price
Watches ==
    [Kod : Codes, Kolichestvo : Quantities, Tsena : {Price1}]
    \cup [Kod : Codes, Kolichestvo : {IntCell(5)}, Tsena : {Price2}]

\* offer ids a shop may hold: those of the table's codes and one the table lacks
OfferIds == {Str(c) : c \in Codes} \cup {<<"7">>}

NoDup(seq) == \A j, k \in 1..Len(seq) : j # k => seq[j] # seq[k]

\* a listing names every offer of the shop once
OfferIdLists == {l \in SeqsUpTo(OfferIds, MaxReg) : NoDup(l)}

WAREHOUSE_ID == "wh"

UtcNow == "2008-09-22T14:01:54Z"

RcInit ==
    /\ rc_file \in {"seller", "market"}
    /\ rc_watch_remnants \in SeqsUpTo(Watches, MaxFeed)
    /\ rc_offer_ids \in OfferIdLists
    /\ rc_registered = rc_offer_ids
    /\ rc_stocks = <<>>
    /\ rc_prices = <<>>
    /\ rc_status = [stocks |-> "pending", prices |-> "pending"]

CallCreateStocks ==
    /\ rc_status.stocks = "pending"
    /\ LET r == IF rc_file = "seller"
                THEN SellerCreateStocks(rc_watch_remnants, rc_offer_ids)
                ELSE MarketCreateStocks(rc_watch_remnants, rc_offer_ids,
                                        WAREHOUSE_ID, UtcNow)
       IN  /\ rc_offer_ids' = r.offer_ids
           /\ rc_stocks' = IF r.raised THEN <<>> ELSE r.stocks
           /\ rc_status' = [rc_status EXCEPT
                               !.stocks = IF r.raised THEN "raised" ELSE "returned"]
    /\ UNCHANGED <<rc_file, rc_watch_remnants, rc_registered, rc_prices, divVars,
                   syncVars>>

CallCreatePrices ==
    /\ rc_status.prices = "pending"
    /\ LET r == IF rc_file = "seller"
                THEN SellerCreatePrices(rc_watch_remnants, rc_offer_ids)
                ELSE MarketCreatePrices(rc_watch_remnants, rc_offer_ids)
       IN  /\ rc_prices' = IF r.raised THEN <<>> ELSE r.prices
           /\ rc_status' = [rc_status EXCEPT
                               !.prices = IF r.raised THEN "raised" ELSE "returned"]
    /\ UNCHANGED <<rc_file, rc_watch_remnants, rc_offer_ids, rc_registered,
                   rc_stocks, divVars, syncVars>>

RcNext == CallCreateStocks \/ CallCreatePrices

InitReconcile == RcInit /\ DivIdle /\ SyncIdle

SpecReconcile == InitReconcile /\ [][RcNext]_vars


\* ================================================ the scripts' main()
\* most listing requests one get_offer_ids call is followed through
MaxPages == 2
\* largest "total" the Ozon listing reports
MaxTotal == 2
\* chunk sizes of main(), scaled down from 100 and 900 (seller.py) and
\* from 2000 (market.py)
SellerStockBatch == 1
SellerPriceBatch == 2
MarketStockBatch == 1

\* nextPageToken / last_id values of the listing: None, or a token
NoToken == "None"

Tokens == {"t1", "t2"}

\* "not page"
Falsy(value) == value \in {"", NoToken}

\* requests.post / get / put followed by raise_for_status()
RequestErrors == {"ReadTimeout", "ConnectionError", "HTTPError"}

\* the pages a listing may return
PageLists == {<<>>, << <<"1">> >>, << <<"7">> >>}

SellerItem(id) == [offer_id |-> id]

MarketEntry(id) == [offer |-> [shopSku |-> id]]

\* the tables download_stock may deliver
Row(code, quantity, price) == [Kod |-> code, Kolichestvo |-> quantity, Tsena |-> price]

SyncFeeds ==
    {<<>>,
     <<Row(IntCell(1), StrCell(<<">", "1", "0">>), Price1)>>,
     <<Row(IntCell(1), StrCell(<<"x">>), Price1)>>,
     <<Row(IntCell(12), IntCell(5), Price2), Row(IntCell(1), IntCell(5), Price1)>>}

WarehouseOf(campaign) == IF campaign = "fbs" THEN "WAREHOUSE_FBS_ID" ELSE "WAREHOUSE_DBS_ID"

Call(op, arg, ok, ret) == [op |-> op, chan |-> chan, arg |-> arg, ok |-> ok, ret |-> ret]

ListCalls(campaign) ==
    SelectSeq(calls, LAMBDA c : c.op = "list" /\ c.chan = campaign)

\* "product_list = items" in place of extend
ExtendReplace(list, items) == items

\* product_list.extend(items)
Extend(list, items) == list \o items

\* seller.get_offer_ids, the loop after the paging
SellerOfferIds(list) == [k \in 1..Len(list) |-> list[k].offer_id]

\* market.get_offer_ids, the loop after the paging
MarketOfferIds(list) == [k \in 1..Len(list) |-> list[k].offer.shopSku]

SyncInit ==
    /\ prog \in {"seller", "market"}
    /\ pc = IF prog = "seller" THEN "get_offer_ids" ELSE "download_stock"
    /\ chan = IF prog = "seller" THEN "ozon" ELSE "fbs"
    /\ err = "none"
    /\ watch_remnants = <<>>
    /\ page = ""
    /\ product_list = <<>>
    /\ offer_ids = <<>>
    /\ stocks = <<>>
    /\ prices = <<>>
    /\ queue = <<>>
    /\ calls = <<>>

\* an exception reaches one of main()'s except clauses: the message is
\* printed and main() returns
Caught(e) ==
    /\ pc' = "done"
    /\ err' = e

\* seller.main: where the stock loop leaves off
SellerAfterStocks == "create_prices"

\* market.main: where the stock loop leaves off
MarketAfterStocks == "upload_prices"

\* one turn of the while loop of seller.get_offer_ids
SellerListPage ==
    /\ prog = "seller"
    /\ pc = "get_offer_ids"
    /\ Len(ListCalls(chan)) < MaxPages
    /\ \/ \E e \in RequestErrors :
             /\ calls' = Append(calls, Call("list", page, FALSE, <<>>))
             /\ Caught(e)
             /\ UNCHANGED <<page, product_list, offer_ids>>
       \/ \E items \in PageLists, total \in 0..MaxTotal, last_id \in Tokens :
             LET some_prod == [items |-> [k \in 1..Len(items) |-> SellerItem(items[k])],
                               total |-> total, last_id |-> last_id]
                 list == Extend(product_list, some_prod.items)
             IN  /\ calls' = Append(calls, Call("list", page, TRUE, some_prod))
                 /\ product_list' = list
                 /\ page' = some_prod.last_id
                 /\ IF some_prod.total = Len(list)
                    THEN /\ offer_ids' = SellerOfferIds(list)
                         /\ pc' = "download_stock"
                    ELSE UNCHANGED <<offer_ids, pc>>
                 /\ UNCHANGED err
    /\ UNCHANGED <<prog, chan, watch_remnants, stocks, prices, queue, divVars, rcVars>>

\* one turn of the while loop of market.get_offer_ids
MarketListPage ==
    /\ prog = "market"
    /\ pc = "get_offer_ids"
    /\ Len(ListCalls(chan)) < MaxPages
    /\ \/ \E e \in RequestErrors :
             /\ calls' = Append(calls, Call("list", page, FALSE, <<>>))
             /\ Caught(e)
             /\ UNCHANGED <<page, product_list, offer_ids>>
       \/ \E items \in PageLists, next \in Tokens \cup {NoToken} :
             LET some_prod ==
                     [offerMappingEntries |->
                          [k \in 1..Len(items) |-> MarketEntry(items[k])],
                      paging |-> [nextPageToken |-> next]]
                 list == Extend(product_list, some_prod.offerMappingEntries)
             IN  /\ calls' = Append(calls, Call("list", page, TRUE, some_prod))
                 /\ product_list' = list
                 /\ page' = some_prod.paging.nextPageToken
                 /\ IF Falsy(some_prod.paging.nextPageToken)
                    THEN /\ offer_ids' = MarketOfferIds(list)
                         /\ pc' = "create_stocks"
                    ELSE UNCHANGED <<offer_ids, pc>>
                 /\ UNCHANGED err
    /\ UNCHANGED <<prog, chan, watch_remnants, stocks, prices, queue, divVars, rcVars>>

\* download_stock(): inside the try block in seller.main, before it in
\* market.main
DownloadStock ==
    /\ pc = "download_stock"
    /\ \/ \E e \in RequestErrors :
             /\ calls' = Append(calls, Call("download", <<>>, FALSE, <<>>))
             /\ IF prog = "seller" THEN Caught(e) ELSE pc' = "crashed" /\ err' = e
             /\ UNCHANGED watch_remnants
       \/ \E table \in SyncFeeds :
             /\ calls' = Append(calls, Call("download", <<>>, TRUE, <<>>))
             /\ watch_remnants' = table
             /\ pc' = IF prog = "seller" THEN "create_stocks" ELSE "get_offer_ids"
             /\ UNCHANGED err
    /\ UNCHANGED <<prog, chan, page, product_list, offer_ids, stocks, prices,
                   queue, divVars, rcVars>>

\* stocks = create_stocks(...) and list(divide(stocks, ...)) of main()
CreateStocks ==
    /\ pc = "create_stocks"
    /\ LET r == IF prog = "seller"
                THEN SellerCreateStocks(watch_remnants, offer_ids)
                ELSE MarketCreateStocks(watch_remnants, offer_ids,
                                        WarehouseOf(chan), UtcNow)
           batches == IF prog = "seller" THEN Divide(r.stocks, SellerStockBatch)
                      ELSE Divide(r.stocks, MarketStockBatch)
       IN  /\ offer_ids' = r.offer_ids
           /\ IF r.raised
              THEN /\ Caught("ValueError")
                   /\ UNCHANGED <<stocks, queue>>
              ELSE /\ stocks' = r.stocks
                   /\ queue' = batches
                   /\ pc' = IF batches # <<>> THEN "update_stocks"
                            ELSE IF prog = "seller" THEN SellerAfterStocks
                            ELSE MarketAfterStocks
                   /\ UNCHANGED err
    /\ UNCHANGED <<prog, chan, watch_remnants, page, product_list, prices, calls,
                   divVars, rcVars>>

\* the stock loop left after its first turn: main() goes on to the prices
\* while batches are still waiting
UpdateStocksLeavesEarly ==
    /\ pc = "update_stocks"
    /\ \/ \E e \in RequestErrors :
             /\ calls' = Append(calls, Call("stocks", Head(queue), FALSE, <<>>))
             /\ Caught(e)
             /\ UNCHANGED queue
       \/ /\ calls' = Append(calls, Call("stocks", Head(queue), TRUE, <<>>))
          /\ queue' = Tail(queue)
          /\ pc' = IF prog = "seller" THEN SellerAfterStocks ELSE MarketAfterStocks
          /\ UNCHANGED err
    /\ UNCHANGED <<prog, chan, watch_remnants, page, product_list, offer_ids,
                   stocks, prices, divVars, rcVars>>

\* one turn of "for some_stock in ...: update_stocks(some_stock, ...)"
UpdateStocks ==
    /\ pc = "update_stocks"
    /\ \/ \E e \in RequestErrors :
             /\ calls' = Append(calls, Call("stocks", Head(queue), FALSE, <<>>))
             /\ Caught(e)
             /\ UNCHANGED queue
       \/ /\ calls' = Append(calls, Call("stocks", Head(queue), TRUE, <<>>))
          /\ queue' = Tail(queue)
          /\ pc' = IF Tail(queue) # <<>> THEN "update_stocks"
                   ELSE IF prog = "seller" THEN SellerAfterStocks
                   ELSE MarketAfterStocks
          /\ UNCHANGED err
    /\ UNCHANGED <<prog, chan, watch_remnants, page, product_list, offer_ids,
                   stocks, prices, divVars, rcVars>>

\* seller.main: prices = create_prices(watch_remnants, offer_ids) and
\* list(divide(prices, 900))
CreatePrices ==
    /\ prog = "seller"
    /\ pc = "create_prices"
    /\ LET r == SellerCreatePrices(watch_remnants, offer_ids)
           batches == Divide(r.prices, SellerPriceBatch)
       IN  /\ prices' = r.prices
           /\ queue' = batches
           /\ pc' = IF batches # <<>> THEN "update_price" ELSE "done"
    /\ UNCHANGED <<prog, chan, err, watch_remnants, page, product_list, offer_ids,
                   stocks, calls, divVars, rcVars>>

\* seller.main: one turn of "for some_price in ...: update_price(...)"
UpdatePrice ==
    /\ prog = "seller"
    /\ pc = "update_price"
    /\ \/ \E e \in RequestErrors :
             /\ calls' = Append(calls, Call("prices", Head(queue), FALSE, <<>>))
             /\ Caught(e)
             /\ UNCHANGED queue
       \/ /\ calls' = Append(calls, Call("prices", Head(queue), TRUE, <<>>))
          /\ queue' = Tail(queue)
          /\ pc' = IF Tail(queue) # <<>> THEN "update_price" ELSE "done"
          /\ UNCHANGED err
    /\ UNCHANGED <<prog, chan, watch_remnants, page, product_list, offer_ids,
                   stocks, prices, divVars, rcVars>>

\* market.main: upload_prices(watch_remnants, campaign, market_token).
\* upload_prices is "async def" and the call is not awaited: it builds a
\* coroutine object that is dropped, and no line of its body runs.  main()
\* goes on to the DBS campaign, then ends.
UploadPrices ==
    /\ prog = "market"
    /\ pc = "upload_prices"
    /\ IF chan = "fbs"
       THEN /\ chan' = "dbs"
            /\ pc' = "get_offer_ids"
            /\ page' = ""
            /\ product_list' = <<>>
       ELSE /\ pc' = "done"
            /\ UNCHANGED <<chan, page, product_list>>
    /\ UNCHANGED <<prog, err, watch_remnants, offer_ids, stocks, prices, queue,
                   calls, divVars, rcVars>>

Next ==
    \/ SellerListPage
    \/ MarketListPage
    \/ DownloadStock
    \/ CreateStocks
    \/ UpdateStocks
    \/ CreatePrices
    \/ UpdatePrice
    \/ UploadPrices

Init == SyncInit /\ DivIdle /\ RcIdle

Spec == Init /\ [][Next]_vars

\* ============================================================== claims
\* ------------------------------------------------- reconciler accessors
StockId(rec) == IF rc_file = "seller" THEN rec.offer_id ELSE rec.sku

StockCount(rec) == IF rc_file = "seller" THEN rec.stock ELSE rec.items[1].count

PriceId(rec) == IF rc_file = "seller" THEN rec.offer_id ELSE rec.id

RcStockIds == [k \in 1..Len(rc_stocks) |-> StockId(rc_stocks[k])]

RcPriceIds == [k \in 1..Len(rc_prices) |-> PriceId(rc_prices[k])]

\* rows of the table whose code, as a string, is the identifier
RowsOf(id) == {k \in 1..Len(rc_watch_remnants) : Str(rc_watch_remnants[k].Kod) = id}

FirstRowOf(id) == CHOOSE k \in RowsOf(id) : \A j \in RowsOf(id) : k <= j

\* the count the specification assigns to a raw quantity
ClaimedCount(cell) ==
    IF cell = StrCell(<<">", "1", "0">>) THEN 100
    ELSE IF cell \in {StrCell(<<"1">>), IntCell(1)} THEN 0
    ELSE IF cell.t = "int" THEN cell.n
    ELSE IF AllDigits(cell.s) THEN DigitsToNat(cell.s)
    ELSE -1000

CountsOf(id) == {StockCount(rc_stocks[k]) : k \in {j \in 1..Len(rc_stocks) : RcStockIds[j] = id}}

\* C1: the identifiers of the StockUpdates create_stocks returns are exactly
\* the registered identifiers, and none appears in two StockUpdates.
C1_Completeness ==
    rc_status.stocks = "returned" =>
        /\ Range(RcStockIds) = Range(rc_registered)
        /\ NoDup(RcStockIds)

\* a returned list with a matched, a feed-only and a registered-only identifier
C1_Witness ==
    /\ rc_status.stocks = "returned"
    /\ \E id \in Range(rc_registered) : RowsOf(id) # {}
    /\ \E id \in Range(rc_registered) : RowsOf(id) = {}
    /\ \E k \in 1..Len(rc_watch_remnants) :
           Str(rc_watch_remnants[k].Kod) \notin Range(rc_registered)

\* C2: an identifier both registered and in the feed gets the normalized
\* quantity of its feed record (">10" -> 100, "1" -> 0, otherwise the integer);
\* an identifier registered but absent from the feed gets count 0 and no
\* PriceUpdate.
C2_Correctness ==
    \A id \in Range(rc_registered) :
        /\ (rc_status.stocks = "returned" /\ Cardinality(RowsOf(id)) = 1) =>
               CountsOf(id) =
                   {ClaimedCount(rc_watch_remnants[FirstRowOf(id)].Kolichestvo)}
        /\ (rc_status.stocks = "returned" /\ RowsOf(id) = {}) => CountsOf(id) = {0}
        /\ (rc_status.prices = "returned" /\ RowsOf(id) = {}) =>
               id \notin Range(RcPriceIds)

\* both functions returned; one identifier matched a ">10" row, another is
\* registered only
C2_Witness ==
    /\ rc_status = [stocks |-> "returned", prices |-> "returned"]
    /\ \E id \in Range(rc_registered) : RowsOf(id) = {}
    /\ \E id \in Range(rc_registered) :
           /\ Cardinality(RowsOf(id)) = 1
           /\ rc_watch_remnants[FirstRowOf(id)].Kolichestvo = StrCell(<<">", "1", "0">>)
    /\ rc_prices # <<>>

\* C4: the batches of divide(lst, n), n > 0, concatenate to lst; each has
\* between 1 and n elements and all but the last exactly n; divide([], n)
\* yields no batch.
C4_Batching ==
    div_done =>
        /\ Concat(div_out) = div_lst
        /\ \A k \in 1..Len(div_out) :
               /\ Len(div_out[k]) >= 1
               /\ Len(div_out[k]) <= div_n
               /\ k < Len(div_out) => Len(div_out[k]) = div_n
        /\ div_lst = <<>> => div_out = <<>>

\* several batches, the last one short
C4_Witness ==
    /\ div_done
    /\ Len(div_out) >= 2
    /\ Len(div_out[Len(div_out)]) < div_n

\* C7: a row whose quantity cannot be parsed is skipped on its own;
\* create_stocks still returns the StockUpdates of the other rows and of the
\* registered identifiers.
C7_MalformedRowSkipped ==
    rc_status.stocks \notin {"pending", "idle"} =>
        /\ rc_status.stocks = "returned"
        /\ \A id \in Range(rc_registered) :
               (RowsOf(id) = {}
                \/ PyInt(rc_watch_remnants[FirstRowOf(id)].Kolichestvo).ok) =>
                   id \in Range(RcStockIds)

\* C10: when several rows share a registered code, create_stocks emits one
\* StockUpdate for it, with the normalized quantity of the first such row.
C10_FirstOccurrence ==
    rc_status.stocks = "returned" =>
        \A id \in Range(rc_registered) :
            Cardinality(RowsOf(id)) >= 2 =>
                /\ Cardinality({k \in 1..Len(rc_stocks) : RcStockIds[k] = id}) = 1
                /\ CountsOf(id) =
                       {ClaimedCount(rc_watch_remnants[FirstRowOf(id)].Kolichestvo)}

\* two rows with one registered code and different normalized quantities
C10_Witness ==
    /\ rc_status.stocks = "returned"
    /\ \E id \in Range(rc_registered) :
           \E j, k \in RowsOf(id) :
               /\ j < k
               /\ ClaimedCount(rc_watch_remnants[j].Kolichestvo)
                      # ClaimedCount(rc_watch_remnants[k].Kolichestvo)

\* ------------------------------------------------------ main() accessors
Campaigns == IF prog = "seller" THEN {"ozon"} ELSE {"fbs", "dbs"}

\* identifiers on the page a listing request returned
IdsOfPage(c) ==
    IF prog = "seller" THEN [k \in 1..Len(c.ret.items) |-> c.ret.items[k].offer_id]
    ELSE [k \in 1..Len(c.ret.offerMappingEntries) |->
              c.ret.offerMappingEntries[k].offer.shopSku]

\* identifiers the listing of a campaign reported
RegisteredOn(campaign) ==
    UNION {Range(IdsOfPage(ListCalls(campaign)[k])) :
               k \in {j \in 1..Len(ListCalls(campaign)) : ListCalls(campaign)[j].ok}}

FeedIds == {Str(watch_remnants[k].Kod) : k \in 1..Len(watch_remnants)}

\* requests of one kind sent for a campaign
Sent(op, campaign) == SelectSeq(calls, LAMBDA c : c.op = op /\ c.chan = campaign)

\* identifiers in the price batches submitted for a campaign
PricedIds(campaign) ==
    UNION {{Sent("prices", campaign)[k].arg[j].offer_id :
                j \in 1..Len(Sent("prices", campaign)[k].arg)} :
               k \in 1..Len(Sent("prices", campaign))}

\* C3: in a run in which every external call succeeds, every identifier
\* registered on a campaign and present in the feed is in a submitted
\* price batch of that campaign.
C3_MatchedIdsPriced ==
    (pc = "done" /\ err = "none") =>
        \A campaign \in Campaigns :
            \A id \in RegisteredOn(campaign) \cap FeedIds :
                id \in PricedIds(campaign)

\* C5: when the synchronisation of the FBS campaign fails, the DBS
\* campaign is still processed in the same run.
C5_OtherCampaignProcessed ==
    (prog = "market" /\ pc = "done" /\ err # "none" /\ chan = "fbs") =>
        Sent("list", "dbs") # <<>>

\* C6: when the submission of one batch fails, the remaining batches of
\* the campaign are still submitted.
C6_RemainingBatchesSubmitted ==
    pc = "done" =>
        \A k \in 1..Len(queue) :
            \E j \in 1..Len(calls) :
                /\ calls[j].op \in {"stocks", "prices"}
                /\ calls[j].chan = chan
                /\ calls[j].arg = queue[k]

NextPageToken(c) == c.ret.paging.nextPageToken

\* C8: market.get_offer_ids starts with the empty token, passes to each
\* request the token of the previous page, sends a request after every
\* page that carries a token and none after the page that carries none,
\* and returns the concatenation of the pages' identifiers in page order.
C8_PagingToExhaustion ==
    prog = "market" =>
        \A campaign \in Campaigns :
            LET lc == ListCalls(campaign)
                k == Len(lc)
            IN  /\ k >= 1 => lc[1].arg = ""
                /\ \A i \in 1..(k - 1) :
                       /\ lc[i].ok
                       /\ ~Falsy(NextPageToken(lc[i]))
                       /\ lc[i + 1].arg = NextPageToken(lc[i])
                /\ (k >= 1 /\ lc[k].ok /\ Falsy(NextPageToken(lc[k]))) =>
                       ~(chan = campaign /\ pc = "get_offer_ids")
                /\ (chan = campaign /\ pc = "create_stocks") =>
                       /\ k >= 1
                       /\ lc[k].ok
                       /\ Falsy(NextPageToken(lc[k]))
                       /\ offer_ids = Concat([i \in 1..k |-> IdsOfPage(lc[i])])

\* get_offer_ids has just returned after several pages
C8_Witness ==
    /\ prog = "market"
    /\ pc = "create_stocks"
    /\ Len(ListCalls(chan)) >= 2
    /\ \A i \in 1..Len(ListCalls(chan)) : IdsOfPage(ListCalls(chan)[i]) # <<>>

\* products counted after the first i pages of the Ozon listing
RECURSIVE Accumulated(_, _)
Accumulated(lc, i) ==
    IF i = 0 THEN 0 ELSE Accumulated(lc, i - 1) + Len(lc[i].ret.items)

\* the listing has stalled: the page token just returned was already passed
\* to an earlier request (page-token listing), or the count still missing
\* from the reported total did not decrease over the last page (Ozon)
Stalled ==
    LET lc == ListCalls(chan)
        k == Len(lc)
    IN  IF prog = "market"
        THEN k >= 1 /\ page \in {lc[i].arg : i \in 1..k}
        ELSE /\ k >= 2
             /\ lc[k].ret.total - Accumulated(lc, k)
                    >= lc[k - 1].ret.total - Accumulated(lc, k - 1)

\* C9: get_offer_ids does not keep paging a stalled listing: it stops with
\* the full list or with a pagination-stall error.
C9_StalledPagingStops == pc = "get_offer_ids" => ~Stalled

\* C11: every StockUpdate create_stocks returns has a count >= 0, whatever
\* quantity values the table holds that int() accepts.
C11_CountNonNegative ==
    rc_status.stocks = "returned" =>
        \A k \in 1..Len(rc_stocks) : StockCount(rc_stocks[k]) >= 0

\* C12: after create_stocks returns, the caller's offer-id list holds the
\* identifiers it held before the call.
C12_CallerListKept ==
    rc_status.stocks = "returned" => Range(rc_offer_ids) = Range(rc_registered)

PriceValue(rec) == IF rc_file = "seller" THEN rec.price ELSE rec.price.value

\* the price the specification assigns to a row
ClaimedPrice(watch) ==
    IF rc_file = "seller" THEN KeepDigits(BeforeDot(watch.Tsena))
    ELSE DigitsToNat(KeepDigits(BeforeDot(watch.Tsena)))

\* C13: when several rows share a registered code, create_prices emits at
\* most one PriceUpdate for it, computed from the first such row; the price
\* list holds no identifier twice.
C13_FirstMatchPrice ==
    rc_status.prices = "returned" =>
        /\ NoDup(RcPriceIds)
        /\ \A k \in 1..Len(rc_prices) :
               PriceValue(rc_prices[k])
                   = ClaimedPrice(rc_watch_remnants[FirstRowOf(RcPriceIds[k])])

\* positions in the request log of the requests of one kind for a campaign
Idx(op, campaign) ==
    {j \in 1..Len(calls) : calls[j].op = op /\ calls[j].chan = campaign}

\* the last listing request of the campaign got the listing's last page
ListComplete(campaign) ==
    LET lc == ListCalls(campaign)
        k == Len(lc)
    IN  /\ k >= 1
        /\ \A i \in 1..k : lc[i].ok
        /\ IF prog = "seller" THEN lc[k].ret.total = Accumulated(lc, k)
           ELSE NextPageToken(lc[k]) \in {"", NoToken}

StockBatchSize == IF prog = "seller" THEN SellerStockBatch ELSE MarketStockBatch

\* the k-th chunk of the stock list, by position
StockChunk(k) ==
    SubSeq(stocks, (k - 1) * StockBatchSize + 1, Min(k * StockBatchSize, Len(stocks)))

StockChunks ==
    IF stocks = <<>> THEN 0 ELSE ((Len(stocks) - 1) \div StockBatchSize) + 1

\* C14: within one campaign the listing is paged to its last page before any
\* batch is submitted, the stock batches are submitted one at a time in the
\* order of the chunks, and no price batch is submitted before the last
\* stock batch.
C14_RequestOrder ==
    \A campaign \in Campaigns :
        LET sent == Sent("stocks", campaign)
        IN  /\ \A i \in Idx("list", campaign) :
                   \A j \in Idx("stocks", campaign) \cup Idx("prices", campaign) : i < j
            /\ (Idx("stocks", campaign) \cup Idx("prices", campaign)) # {} =>
                   ListComplete(campaign)
            /\ \A i \in Idx("stocks", campaign) : \A j \in Idx("prices", campaign) : i < j
            /\ \A k \in 1..(Len(sent) - 1) : sent[k].ok
            /\ campaign = chan =>
                   /\ Len(sent) <= StockChunks
                   /\ \A k \in 1..Len(sent) : sent[k].arg = StockChunk(k)
                   /\ Idx("prices", campaign) # {} =>
                          /\ Len(sent) = StockChunks
                          /\ \A k \in 1..Len(sent) : sent[k].ok

\* a finished run with several listing requests, several stock batches and
\* a price batch
C14_Witness ==
    /\ pc = "done"
    /\ err = "none"
    /\ Len(ListCalls(chan)) >= 2
    /\ Len(Sent("stocks", chan)) >= 2
    /\ Sent("prices", chan) # <<>>
====
